---- MODULE Spec2Model ----
(***************************************************************************)
(* Lost-and-found matching engine: RuleBasedAgent (src/agent/rule_agent.py) *)
(* over MatchService (src/services/match_service.py) and the match_results *)
(* table (src/models/match_result.py).                                     *)
(*                                                                         *)
(* Representation.  A Python str is a sequence of code points (so that     *)
(* strip(), lower(), the tokenizer's character classes and difflib's       *)
(* SequenceMatcher are computed, not assumed).  An Optional value is a     *)
(* record: None, Str(s) or DateTime(h), h in whole hours.  A float         *)
(* similarity is the exact fraction <<num, den>> (ratio() is 2*M/T).       *)
(* MatchLevel's three labels are written "HIGH", "MEDIUM", "LOW" and the   *)
(* eight fixed reason strings "reason1" .. "reason8".                      *)
(***************************************************************************)
EXTENDS Integers, Sequences, FiniteSets, TLC

VARIABLES
    lost_items,     \* table lost_items: id -> report fields
    found_items,    \* table found_items: id -> report fields
    match_results,  \* table match_results: the set of committed rows
    session,        \* the rows as db.session sees them: committed and pending
    clock,          \* the latest time datetime.now(UTC) has returned; a flush
                    \* stamps with it, mark_match_completed may advance it
    calls,          \* number of calls made so far
    last_call,      \* the call that produced this state, with its pre-state facts
    result,         \* what that call returned (or the exception it raised)
    probe           \* DecideSpec only: the inputs handed to the decision rules

vars == <<lost_items, found_items, match_results, session, clock, calls, last_call, result, probe>>

-----------------------------------------------------------------------------
(* Python values *)

None == [kind |-> "None"]

Str(s) == [kind |-> "str", s |-> s]

DateTime(h) == [kind |-> "datetime", h |-> h]

Raise(exc) == [kind |-> "raise", exc |-> exc]

RuleOutcome(score, level, reason) ==
    [kind |-> "RuleOutcome", score |-> score, level |-> level, reason |-> reason]

HIGH == "HIGH"

MEDIUM == "MEDIUM"

LOW == "LOW"

Abs(n) == IF n < 0 THEN -n ELSE n

Min(a, b) == IF a <= b THEN a ELSE b

\* the set's largest element, 0 for the empty set
MaxOf(S) == IF S = {} THEN 0 ELSE CHOOSE m \in S : \A n \in S : n <= m

-----------------------------------------------------------------------------
(* Similarity primitives: rule_agent.py, "Utility helpers" *)

\* str.strip()'s whitespace, ASCII part
IsSpace(c) == c \in {9, 10, 11, 12, 13, 28, 29, 30, 31, 32}

\* str.lower() on one character: ASCII letters fold, CJK ideographs have no case
LowerChar(c) == IF c \in 65..90 THEN c + 32 ELSE c

Lower(s) == [i \in 1..Len(s) |-> LowerChar(s[i])]

Strip(s) ==
    LET keep == {i \in 1..Len(s) : ~IsSpace(s[i])}
    IN  IF keep = {} THEN <<>>
        ELSE SubSeq(s, CHOOSE i \in keep : \A j \in keep : i <= j,
                       CHOOSE i \in keep : \A j \in keep : j <= i)

\* value or "": None and the empty string are both falsy
OrEmpty(value) == IF value = None THEN <<>> ELSE value.s

\* _normalize: (value or "").strip().lower()
_normalize(value) == Lower(Strip(OrEmpty(value)))

\* _time_difference_days with a missing timestamp counted as no gap
_time_difference_days_defaults_zero(first, second) ==
    IF first = None \/ second = None THEN [kind |-> "int", n |-> 0]
    ELSE [kind |-> "int", n |-> Abs((first.h - second.h) \div 24)]

\* _time_difference_days: None when a timestamp is missing, otherwise
\* abs((first - second).days); timedelta.days is the floor of the difference
\* in days, so a negative difference of less than a day has days = -1.
_time_difference_days(first, second) ==
    IF first = None \/ second = None THEN None
    ELSE [kind |-> "int", n |-> Abs((first.h - second.h) \div 24)]

\* SequenceMatcher.find_longest_match on a[alo..ahi], b[blo..bhi] (1-based,
\* inclusive; no junk): the longest common block, of those the one starting
\* earliest in a, of those the one starting earliest in b; k = 0 when none.
find_longest_match(a, b, alo, ahi, blo, bhi) ==
    LET blocks == {m \in (alo..ahi) \X (blo..bhi) \X (1..(ahi - alo + 1)) :
                       /\ m[1] + m[3] - 1 <= ahi
                       /\ m[2] + m[3] - 1 <= bhi
                       /\ \A d \in 0..(m[3] - 1) : a[m[1] + d] = b[m[2] + d]}
    IN  IF blocks = {} THEN <<alo, blo, 0>>
        ELSE CHOOSE m \in blocks : \A o \in blocks :
                 \/ m[3] > o[3]
                 \/ m[3] = o[3] /\ m[1] < o[1]
                 \/ m[3] = o[3] /\ m[1] = o[1] /\ m[2] <= o[2]

RECURSIVE matching_chars(_, _, _, _, _, _)
\* SequenceMatcher.get_matching_blocks, summed: the longest block, then the
\* pieces to its left and to its right
matching_chars(a, b, alo, ahi, blo, bhi) ==
    IF alo > ahi \/ blo > bhi THEN 0
    ELSE LET m == find_longest_match(a, b, alo, ahi, blo, bhi)
         IN  IF m[3] = 0 THEN 0
             ELSE m[3]
                  + matching_chars(a, b, alo, m[1] - 1, blo, m[2] - 1)
                  + matching_chars(a, b, m[1] + m[3], ahi, m[2] + m[3], bhi)

\* SequenceMatcher(a, b).ratio(): 2.0 * M / T, and 1.0 for two empty strings
ratio(a, b) ==
    IF Len(a) + Len(b) = 0 THEN <<1, 1>>
    ELSE <<2 * matching_chars(a, b, 1, Len(a), 1, Len(b)), Len(a) + Len(b)>>

\* _description_similarity: first.lower() raises AttributeError on None
_description_similarity(first, second) ==
    IF first = None \/ second = None THEN Raise("AttributeError")
    ELSE [kind |-> "float", q |-> ratio(Lower(first.s), Lower(second.s))]

IsCJK(c) == c \in 19968..40959

IsAlnum(c) == c \in 97..122 \/ c \in 48..57

\* the maximal runs of characters of one class, as <<first, last>> positions
Runs(t, InClass(_)) ==
    {r \in (1..Len(t)) \X (1..Len(t)) :
        /\ r[1] <= r[2]
        /\ \A k \in r[1]..r[2] : InClass(t[k])
        /\ r[1] = 1 \/ ~InClass(t[r[1] - 1])
        /\ r[2] = Len(t) \/ ~InClass(t[r[2] + 1])}

\* tokenize: CJK runs and [a-z0-9] runs of the lower-cased text, plus every
\* substring of length 2..6 of every CJK run
tokenize(text) ==
    IF text = None \/ text.s = <<>> THEN {}
    ELSE LET t == Lower(text.s)
             cjk_runs == Runs(t, IsCJK)
         IN  {SubSeq(t, r[1], r[2]) : r \in cjk_runs \cup Runs(t, IsAlnum)}
             \cup UNION {
                   {SubSeq(t, r[1] + i, r[1] + i + l - 1) :
                        <<i, l>> \in {p \in (0..(r[2] - r[1])) \X (2..Min(6, r[2] - r[1] + 1)) :
                                       p[1] + p[2] <= r[2] - r[1] + 1}}
                   : r \in cjk_runs}

\* _keyword_overlap: size of the intersection of the two token sets
_keyword_overlap(first, second) == Cardinality(tokenize(first) \cap tokenize(second))

-----------------------------------------------------------------------------
(* Decision rules: rule_agent.py, RuleBasedAgent._decide *)

\* description_similarity >= pct / 100, on the exact fraction
AtLeast(q, pct) == q[1] * 100 >= pct * q[2]

\* time_gap_days is not None and time_gap_days <= days
Within(time_gap_days, days) == time_gap_days # None /\ time_gap_days.n <= days

\* the cascade with rule 1 passing a pair whose gap is unknown
decide_rules_unknown_gap_passes(category_match, location_match, time_gap_days, description_similarity, keyword_overlap) ==
    IF category_match /\ location_match /\ (time_gap_days = None \/ time_gap_days.n <= 2)
        THEN RuleOutcome(98, HIGH, "reason1")
    ELSE IF category_match /\ location_match /\ AtLeast(description_similarity, 50)
        THEN RuleOutcome(90, HIGH, "reason2")
    ELSE IF category_match /\ (AtLeast(description_similarity, 65) \/ keyword_overlap >= 3)
        THEN RuleOutcome(80, MEDIUM, "reason3")
    ELSE IF category_match /\ location_match /\ Within(time_gap_days, 7)
        THEN RuleOutcome(75, MEDIUM, "reason4")
    ELSE IF category_match /\ Within(time_gap_days, 5) /\ keyword_overlap >= 1
        THEN RuleOutcome(70, MEDIUM, "reason5")
    ELSE IF AtLeast(description_similarity, 60) /\ location_match
        THEN RuleOutcome(65, MEDIUM, "reason6")
    ELSE IF \/ category_match /\ AtLeast(description_similarity, 40)
            \/ AtLeast(description_similarity, 50) /\ keyword_overlap >= 2
        THEN RuleOutcome(55, LOW, "reason7")
    ELSE IF location_match /\ keyword_overlap >= 2 /\ AtLeast(description_similarity, 35)
        THEN RuleOutcome(45, LOW, "reason8")
    ELSE None

\* the cascade with rule 7 looked at before rule 5
decide_rules_rule7_before_5(category_match, location_match, time_gap_days, description_similarity, keyword_overlap) ==
    IF category_match /\ location_match /\ Within(time_gap_days, 2)
        THEN RuleOutcome(98, HIGH, "reason1")
    ELSE IF category_match /\ location_match /\ AtLeast(description_similarity, 50)
        THEN RuleOutcome(90, HIGH, "reason2")
    ELSE IF category_match /\ (AtLeast(description_similarity, 65) \/ keyword_overlap >= 3)
        THEN RuleOutcome(80, MEDIUM, "reason3")
    ELSE IF category_match /\ location_match /\ Within(time_gap_days, 7)
        THEN RuleOutcome(75, MEDIUM, "reason4")
    ELSE IF \/ category_match /\ AtLeast(description_similarity, 40)
            \/ AtLeast(description_similarity, 50) /\ keyword_overlap >= 2
        THEN RuleOutcome(55, LOW, "reason7")
    ELSE IF category_match /\ Within(time_gap_days, 5) /\ keyword_overlap >= 1
        THEN RuleOutcome(70, MEDIUM, "reason5")
    ELSE IF AtLeast(description_similarity, 60) /\ location_match
        THEN RuleOutcome(65, MEDIUM, "reason6")
    ELSE IF location_match /\ keyword_overlap >= 2 /\ AtLeast(description_similarity, 35)
        THEN RuleOutcome(45, LOW, "reason8")
    ELSE None

\* the cascade with rule 8 not asking for the location
decide_rules_rule8_any_location(category_match, location_match, time_gap_days, description_similarity, keyword_overlap) ==
    IF category_match /\ location_match /\ Within(time_gap_days, 2)
        THEN RuleOutcome(98, HIGH, "reason1")
    ELSE IF category_match /\ location_match /\ AtLeast(description_similarity, 50)
        THEN RuleOutcome(90, HIGH, "reason2")
    ELSE IF category_match /\ (AtLeast(description_similarity, 65) \/ keyword_overlap >= 3)
        THEN RuleOutcome(80, MEDIUM, "reason3")
    ELSE IF category_match /\ location_match /\ Within(time_gap_days, 7)
        THEN RuleOutcome(75, MEDIUM, "reason4")
    ELSE IF category_match /\ Within(time_gap_days, 5) /\ keyword_overlap >= 1
        THEN RuleOutcome(70, MEDIUM, "reason5")
    ELSE IF AtLeast(description_similarity, 60) /\ location_match
        THEN RuleOutcome(65, MEDIUM, "reason6")
    ELSE IF \/ category_match /\ AtLeast(description_similarity, 40)
            \/ AtLeast(description_similarity, 50) /\ keyword_overlap >= 2
        THEN RuleOutcome(55, LOW, "reason7")
    ELSE IF keyword_overlap >= 2 /\ AtLeast(description_similarity, 35)
        THEN RuleOutcome(45, LOW, "reason8")
    ELSE None

\* the cascade with rule 4 looked at before rule 3
decide_rules_rule4_first(category_match, location_match, time_gap_days, description_similarity, keyword_overlap) ==
    IF category_match /\ location_match /\ Within(time_gap_days, 2)
        THEN RuleOutcome(98, HIGH, "reason1")
    ELSE IF category_match /\ location_match /\ AtLeast(description_similarity, 50)
        THEN RuleOutcome(90, HIGH, "reason2")
    ELSE IF category_match /\ location_match /\ Within(time_gap_days, 7)
        THEN RuleOutcome(75, MEDIUM, "reason4")
    ELSE IF category_match /\ (AtLeast(description_similarity, 65) \/ keyword_overlap >= 3)
        THEN RuleOutcome(80, MEDIUM, "reason3")
    ELSE IF category_match /\ Within(time_gap_days, 5) /\ keyword_overlap >= 1
        THEN RuleOutcome(70, MEDIUM, "reason5")
    ELSE IF AtLeast(description_similarity, 60) /\ location_match
        THEN RuleOutcome(65, MEDIUM, "reason6")
    ELSE IF \/ category_match /\ AtLeast(description_similarity, 40)
            \/ AtLeast(description_similarity, 50) /\ keyword_overlap >= 2
        THEN RuleOutcome(55, LOW, "reason7")
    ELSE IF location_match /\ keyword_overlap >= 2 /\ AtLeast(description_similarity, 35)
        THEN RuleOutcome(45, LOW, "reason8")
    ELSE None

\* the cascade with rule 2 looked at before rule 1
decide_rules_rule2_first(category_match, location_match, time_gap_days, description_similarity, keyword_overlap) ==
    IF category_match /\ location_match /\ AtLeast(description_similarity, 50)
        THEN RuleOutcome(90, HIGH, "reason2")
    ELSE IF category_match /\ location_match /\ Within(time_gap_days, 2)
        THEN RuleOutcome(98, HIGH, "reason1")
    ELSE IF category_match /\ (AtLeast(description_similarity, 65) \/ keyword_overlap >= 3)
        THEN RuleOutcome(80, MEDIUM, "reason3")
    ELSE IF category_match /\ location_match /\ Within(time_gap_days, 7)
        THEN RuleOutcome(75, MEDIUM, "reason4")
    ELSE IF category_match /\ Within(time_gap_days, 5) /\ keyword_overlap >= 1
        THEN RuleOutcome(70, MEDIUM, "reason5")
    ELSE IF AtLeast(description_similarity, 60) /\ location_match
        THEN RuleOutcome(65, MEDIUM, "reason6")
    ELSE IF \/ category_match /\ AtLeast(description_similarity, 40)
            \/ AtLeast(description_similarity, 50) /\ keyword_overlap >= 2
        THEN RuleOutcome(55, LOW, "reason7")
    ELSE IF location_match /\ keyword_overlap >= 2 /\ AtLeast(description_similarity, 35)
        THEN RuleOutcome(45, LOW, "reason8")
    ELSE None

\* the cascade of _decide, lines 63-128: the first rule whose condition holds
decide_rules(category_match, location_match, time_gap_days, description_similarity, keyword_overlap) ==
    IF category_match /\ location_match /\ Within(time_gap_days, 2)
        THEN RuleOutcome(98, HIGH, "reason1")
    ELSE IF category_match /\ location_match /\ AtLeast(description_similarity, 50)
        THEN RuleOutcome(90, HIGH, "reason2")
    ELSE IF category_match /\ (AtLeast(description_similarity, 65) \/ keyword_overlap >= 3)
        THEN RuleOutcome(80, MEDIUM, "reason3")
    ELSE IF category_match /\ location_match /\ Within(time_gap_days, 7)
        THEN RuleOutcome(75, MEDIUM, "reason4")
    ELSE IF category_match /\ Within(time_gap_days, 5) /\ keyword_overlap >= 1
        THEN RuleOutcome(70, MEDIUM, "reason5")
    ELSE IF AtLeast(description_similarity, 60) /\ location_match
        THEN RuleOutcome(65, MEDIUM, "reason6")
    ELSE IF \/ category_match /\ AtLeast(description_similarity, 40)
            \/ AtLeast(description_similarity, 50) /\ keyword_overlap >= 2
        THEN RuleOutcome(55, LOW, "reason7")
    ELSE IF location_match /\ keyword_overlap >= 2 /\ AtLeast(description_similarity, 35)
        THEN RuleOutcome(45, LOW, "reason8")
    ELSE None

\* _decide, lines 57-61: the five inputs are computed in this order, so a
\* missing description raises before any rule is looked at
_decide(lost_item, found_item) ==
    LET category_match ==
            _normalize(lost_item.category) = _normalize(found_item.category)
        location_match ==
            _normalize(lost_item.location) = _normalize(found_item.location)
        time_gap_days ==
            _time_difference_days(lost_item.occurred_at, found_item.occurred_at)
        description_similarity ==
            _description_similarity(lost_item.description, found_item.description)
        keyword_overlap ==
            _keyword_overlap(lost_item.description, found_item.description)
    IN  IF description_similarity.kind = "raise" THEN description_similarity
        ELSE decide_rules(category_match, location_match, time_gap_days,
                          description_similarity.q, keyword_overlap)

-----------------------------------------------------------------------------
(* Bounds and the reports the model submits *)

MaxLost == 2

MaxFound == 2

MaxClock == 1

\* length of the call sequences explored
MaxCalls == 6

Report(category, description, location, occurred_at) ==
    [category |-> category, description |-> description,
     location |-> location, occurred_at |-> occurred_at]

\* "ID", "id " and "key"
CatId == Str(<<73, 68>>)

CatIdLower == Str(<<105, 100, 32>>)

CatKey == Str(<<107, 101, 121>>)

\* "Lib", "lib" and "gym"
LocLib == Str(<<76, 105, 98>>)

LocLibLower == Str(<<108, 105, 98>>)

LocGym == Str(<<103, 121, 109>>)

\* U+9ED1 U+8272 U+624B U+673A ("black phone") and U+624B U+673A ("phone")
DescBlackPhone == Str(<<40657, 33394, 25163, 26426>>)

DescPhone == Str(<<25163, 26426>>)

\* what a lost report is created with or edited to
LostContents ==
    { Report(CatId, DescBlackPhone, LocLib, DateTime(33)),
      Report(CatId, DescBlackPhone, LocGym, None) }

\* what a found report is created with or edited to
FoundContents ==
    { Report(CatIdLower, DescBlackPhone, LocLibLower, DateTime(34)),
      Report(CatKey, DescPhone, LocLib, DateTime(240)) }

\* a found report stored without a description
FoundNoDescription == Report(CatId, None, LocLib, DateTime(10))

\* the reports of SessionSpec: one lost report, the found report that matches
\* it and the found report without a description
SessionLostContents == {Report(CatId, DescBlackPhone, LocLib, DateTime(33))}

SessionFoundContents ==
    {Report(CatIdLower, DescBlackPhone, LocLibLower, DateTime(34)), FoundNoDescription}

\* _decide on the reports the model submits, computed once per pair of contents
DecideTable ==
    [p \in (LostContents \cup SessionLostContents)
              \X (FoundContents \cup SessionFoundContents) |-> _decide(p[1], p[2])]

-----------------------------------------------------------------------------
(* Match store: match_service.py, MatchService, and the match_results table *)

List(items) == [kind |-> "list", items |-> items]

MatchResult(id, lost_item_id, found_item_id, score, level, reason) ==
    [id |-> id, lost_item_id |-> lost_item_id, found_item_id |-> found_item_id,
     score |-> score, level |-> level, reason |-> reason,
     is_completed |-> FALSE, completed_at |-> None,
     created_at |-> None, updated_at |-> None]

\* the flush of the session at time now: the column defaults of created_at and
\* updated_at stamp an inserted row, onupdate of updated_at stamps a row that
\* an UPDATE changes; before is the table as it was flushed last
flush(before, after, now) ==
    {IF m.created_at = None
         THEN [m EXCEPT !.created_at = DateTime(now), !.updated_at = DateTime(now)]
     ELSE IF m \notin before THEN [m EXCEPT !.updated_at = DateTime(now)]
     ELSE m : m \in after}

\* UniqueConstraint("lost_item_id", "found_item_id", name="uq_match_pair")
uq_match_pair(rows) ==
    \A m \in rows : \A o \in rows :
        (m.lost_item_id = o.lost_item_id /\ m.found_item_id = o.found_item_id)
            => m = o

\* INTEGER PRIMARY KEY of SQLite (the configured database): the largest id
\* in the table plus one
next_id(rows) == MaxOf({m.id : m \in rows}) + 1

\* ORDER BY occurred_at DESC: NULL sorts below every timestamp, rows with
\* equal keys come in any order
order_by_occurred_at_desc(items) ==
    LET key(i) == IF items[i].occurred_at = None THEN -1 ELSE items[i].occurred_at.h
        n == Cardinality(DOMAIN items)
    IN  {s \in [1..n -> DOMAIN items] :
            /\ \A i \in 1..n : \A j \in 1..n : s[i] = s[j] => i = j
            /\ \A i \in 1..n : \A j \in 1..n : i < j => key(s[i]) >= key(s[j])}

all_found_items(found) == order_by_occurred_at_desc(found)

all_lost_items(lost) == order_by_occurred_at_desc(lost)

\* upsert_match that overwrites the score and the reason, not the level
upsert_match_keeps_level(rows, lost_item_id, found_item_id, score, level, reason) ==
    LET hits == {m \in rows : m.lost_item_id = lost_item_id
                              /\ m.found_item_id = found_item_id}
    IN  IF hits = {}
        THEN LET match == MatchResult(next_id(rows), lost_item_id, found_item_id,
                                      score, level, reason)
             IN  [rows |-> rows \cup {match}, match |-> match.id]
        ELSE LET match == CHOOSE m \in hits : \A o \in hits : m.id <= o.id
             IN  IF match.is_completed
                 THEN [rows |-> rows, match |-> match.id]
                 ELSE [rows |-> (rows \ {match}) \cup
                                {[match EXCEPT !.score = score, !.reason = reason]},
                       match |-> match.id]

\* upsert_match that reopens a completed match when it is evaluated again
upsert_match_reopens(rows, lost_item_id, found_item_id, score, level, reason) ==
    LET hits == {m \in rows : m.lost_item_id = lost_item_id
                              /\ m.found_item_id = found_item_id}
    IN  IF hits = {}
        THEN LET match == MatchResult(next_id(rows), lost_item_id, found_item_id,
                                      score, level, reason)
             IN  [rows |-> rows \cup {match}, match |-> match.id]
        ELSE LET match == CHOOSE m \in hits : \A o \in hits : m.id <= o.id
             IN  [rows |-> (rows \ {match}) \cup
                           {[match EXCEPT !.score = score, !.level = level,
                                          !.reason = reason, !.is_completed = FALSE]},
                  match |-> match.id]

\* upsert_match that replaces an open match by a new object with the same id
upsert_match_replaces_row(rows, lost_item_id, found_item_id, score, level, reason) ==
    LET hits == {m \in rows : m.lost_item_id = lost_item_id
                              /\ m.found_item_id = found_item_id}
    IN  IF hits = {}
        THEN LET match == MatchResult(next_id(rows), lost_item_id, found_item_id,
                                      score, level, reason)
             IN  [rows |-> rows \cup {match}, match |-> match.id]
        ELSE LET match == CHOOSE m \in hits : \A o \in hits : m.id <= o.id
             IN  IF match.is_completed
                 THEN [rows |-> rows, match |-> match.id]
                 ELSE [rows |-> (rows \ {match}) \cup
                                {MatchResult(match.id, lost_item_id, found_item_id,
                                             score, level, reason)},
                       match |-> match.id]

\* upsert_match without the lookup: a row is added whatever the table holds
upsert_match_always_inserts(rows, lost_item_id, found_item_id, score, level, reason) ==
    LET match == MatchResult(next_id(rows), lost_item_id, found_item_id,
                             score, level, reason)
    IN  [rows |-> rows \cup {match}, match |-> match.id]

\* upsert_match without the is_completed branch: a completed row is
\* overwritten like any other
upsert_match_ignores_completed(rows, lost_item_id, found_item_id, score, level, reason) ==
    LET hits == {m \in rows : m.lost_item_id = lost_item_id
                              /\ m.found_item_id = found_item_id}
    IN  IF hits = {}
        THEN LET match == MatchResult(next_id(rows), lost_item_id, found_item_id,
                                      score, level, reason)
             IN  [rows |-> rows \cup {match}, match |-> match.id]
        ELSE LET match == CHOOSE m \in hits : \A o \in hits : m.id <= o.id
             IN  [rows |-> (rows \ {match}) \cup
                           {[match EXCEPT !.score = score, !.level = level,
                                          !.reason = reason]},
                  match |-> match.id]

\* upsert_match that replaces an open row by a new one instead of updating it
upsert_match_reinserts(rows, lost_item_id, found_item_id, score, level, reason) ==
    LET hits == {m \in rows : m.lost_item_id = lost_item_id
                              /\ m.found_item_id = found_item_id}
    IN  IF hits = {}
        THEN LET match == MatchResult(next_id(rows), lost_item_id, found_item_id,
                                      score, level, reason)
             IN  [rows |-> rows \cup {match}, match |-> match.id]
        ELSE LET match == CHOOSE m \in hits : \A o \in hits : m.id <= o.id
             IN  IF match.is_completed
                 THEN [rows |-> rows, match |-> match.id]
                 ELSE LET new == MatchResult(next_id(rows), lost_item_id,
                                             found_item_id, score, level, reason)
                      IN  [rows |-> (rows \ {match}) \cup {new}, match |-> new.id]

\* upsert_match on the session's rows: the pair's row is looked up; a missing
\* row is added, a completed one is returned as it is, any other one gets the
\* new score, level and reason
upsert_match(rows, lost_item_id, found_item_id, score, level, reason) ==
    LET hits == {m \in rows : m.lost_item_id = lost_item_id
                              /\ m.found_item_id = found_item_id}
    IN  IF hits = {}
        THEN LET match == MatchResult(next_id(rows), lost_item_id, found_item_id,
                                      score, level, reason)
             IN  [rows |-> rows \cup {match}, match |-> match.id]
        ELSE LET match == CHOOSE m \in hits : \A o \in hits : m.id <= o.id
             IN  IF match.is_completed
                 THEN [rows |-> rows, match |-> match.id]
                 ELSE [rows |-> (rows \ {match}) \cup
                                {[match EXCEPT !.score = score, !.level = level,
                                               !.reason = reason]},
                       match |-> match.id]

\* session.commit(): the pending rows are written, unless the flush breaks
\* uq_match_pair, which raises IntegrityError and writes nothing
commit(committed, pending) ==
    IF uq_match_pair(pending) THEN [rows |-> pending, raised |-> None]
    ELSE [rows |-> committed, raised |-> Raise("IntegrityError")]

\* bulk_persist: commit, then the list it was given
bulk_persist(committed, pending, matches) ==
    LET c == commit(committed, pending)
    IN  [rows |-> c.rows,
         result |-> IF c.raised = None THEN List(matches) ELSE c.raised]

\* mark_match_completed without the "if not match.is_completed" guard
mark_match_completed_restamps(rows, match_id, now) ==
    LET hits == {m \in rows : m.id = match_id}
    IN  IF hits = {} THEN [rows |-> rows, result |-> None]
        ELSE LET match == CHOOSE m \in hits : TRUE
             IN  [rows |-> (rows \ {match}) \cup
                           {[match EXCEPT !.is_completed = TRUE,
                                          !.completed_at = DateTime(now),
                                          !.updated_at = DateTime(now)]},
                  result |-> [kind |-> "MatchResult", id |-> match_id]]

\* mark_match_completed at time now
mark_match_completed(rows, match_id, now) ==
    LET hits == {m \in rows : m.id = match_id}
    IN  IF hits = {} THEN [rows |-> rows, result |-> None]
        ELSE LET match == CHOOSE m \in hits : TRUE
             IN  IF ~match.is_completed
                 THEN [rows |-> (rows \ {match}) \cup
                                {[match EXCEPT !.is_completed = TRUE,
                                               !.completed_at = DateTime(now),
                                               !.updated_at = DateTime(now)]},
                       result |-> [kind |-> "MatchResult", id |-> match_id]]
                 ELSE [rows |-> rows, result |-> [kind |-> "MatchResult", id |-> match_id]]

\* clear_matches_for_lost / clear_matches_for_found
clear_matches_for_lost(rows, lost_id) == {m \in rows : m.lost_item_id # lost_id}

clear_matches_for_found(rows, found_id) == {m \in rows : m.found_item_id # found_id}

\* the delete cascade of LostItem.matches / FoundItem.matches (models/item.py):
\* deleting a report deletes every match that references it
cascade_lost(rows, lost_id) == {m \in rows : m.lost_item_id # lost_id}

cascade_found(rows, found_id) == {m \in rows : m.found_item_id # found_id}

\* the table without row id
without(items, id) == [i \in DOMAIN items \ {id} |-> items[i]]

\* delete_lost_item that looks the report up and never deletes it
delete_lost_item_keeps_report(lost, rows, lost_id) == [items |-> lost, rows |-> rows]

\* delete_lost_item: nothing when the report does not exist
delete_lost_item(lost, rows, lost_id) ==
    IF lost_id \in DOMAIN lost
    THEN [items |-> without(lost, lost_id), rows |-> cascade_lost(rows, lost_id)]
    ELSE [items |-> lost, rows |-> rows]

delete_found_item(found, rows, found_id) ==
    IF found_id \in DOMAIN found
    THEN [items |-> without(found, found_id), rows |-> cascade_found(rows, found_id)]
    ELSE [items |-> found, rows |-> rows]

-----------------------------------------------------------------------------
(* Orchestrator: rule_agent.py, handle_new_lost / handle_new_found *)

RECURSIVE _evaluate_pairs_stops_at_none(_, _, _)
\* _evaluate_pairs with "break" where the code has "continue"
_evaluate_pairs_stops_at_none(lost, found, pairs) ==
    IF pairs = <<>> THEN [decisions |-> <<>>, raised |-> None]
    ELSE LET lost_id == Head(pairs)[1]
             found_id == Head(pairs)[2]
             outcome == DecideTable[<<lost[lost_id], found[found_id]>>]
         IN  IF outcome.kind = "raise" THEN [decisions |-> <<>>, raised |-> outcome]
             ELSE IF outcome = None THEN [decisions |-> <<>>, raised |-> None]
             ELSE LET rest == _evaluate_pairs_stops_at_none(lost, found, Tail(pairs))
                  IN  [decisions |-> <<<<lost_id, found_id, outcome>>>> \o rest.decisions,
                       raised |-> rest.raised]

RECURSIVE _evaluate_pairs(_, _, _)
\* _evaluate_pairs: the pairs with an outcome, in order, up to the first pair
\* whose evaluation raises
_evaluate_pairs(lost, found, pairs) ==
    IF pairs = <<>> THEN [decisions |-> <<>>, raised |-> None]
    ELSE LET lost_id == Head(pairs)[1]
             found_id == Head(pairs)[2]
             outcome == DecideTable[<<lost[lost_id], found[found_id]>>]
         IN  IF outcome.kind = "raise" THEN [decisions |-> <<>>, raised |-> outcome]
             ELSE LET rest == _evaluate_pairs(lost, found, Tail(pairs))
                  IN  IF outcome = None THEN rest
                      ELSE [decisions |-> <<<<lost_id, found_id, outcome>>>> \o rest.decisions,
                            raised |-> rest.raised]

RECURSIVE upsert_each_prepends(_, _, _)
\* the loop of _act with persisted.insert(0, match) for persisted.append(match)
upsert_each_prepends(rows, decisions, persisted) ==
    IF decisions = <<>> THEN [rows |-> rows, persisted |-> persisted]
    ELSE LET d == Head(decisions)
             u == upsert_match(rows, d[1], d[2], d[3].score, d[3].level, d[3].reason)
         IN  upsert_each_prepends(u.rows, Tail(decisions), <<u.match>> \o persisted)

RECURSIVE upsert_each(_, _, _)
\* the loop of _act: one upsert per decision, each appended to persisted
upsert_each(rows, decisions, persisted) ==
    IF decisions = <<>> THEN [rows |-> rows, persisted |-> persisted]
    ELSE LET d == Head(decisions)
             u == upsert_match(rows, d[1], d[2], d[3].score, d[3].level, d[3].reason)
         IN  upsert_each(u.rows, Tail(decisions), Append(persisted, u.match))

\* _act: decisions is a generator, so each pair is evaluated and upserted in
\* turn; then one commit when anything was upserted.  An exception of an
\* evaluation leaves the loop before the commit, with the upserts made so far
\* pending in the session (nothing rolls them back).  rows is the committed
\* table, pending the session's view of it.
_act(rows, pending, evaluated, now) ==
    LET done == upsert_each(pending, evaluated.decisions, <<>>)
    IN  IF evaluated.raised # None
        THEN [rows |-> rows, session |-> flush(pending, done.rows, now),
              result |-> evaluated.raised]
        ELSE IF done.persisted = <<>>
        THEN [rows |-> rows, session |-> pending, result |-> List(<<>>)]
        ELSE LET p == bulk_persist(rows, flush(pending, done.rows, now), done.persisted)
             IN  [rows |-> p.rows, session |-> p.rows, result |-> p.result]

\* handle_new_lost that calls clear_matches_for_lost before it evaluates
handle_new_lost_clears_first(lost, found, rows, pending, lost_id, candidates, now) ==
    _act(clear_matches_for_lost(pending, lost_id), clear_matches_for_lost(pending, lost_id),
         _evaluate_pairs(lost, found,
                   [i \in 1..Len(candidates) |-> <<lost_id, candidates[i]>>]), now)

handle_new_lost(lost, found, rows, pending, lost_id, candidates, now) ==
    _act(rows, pending, _evaluate_pairs(lost, found,
                   [i \in 1..Len(candidates) |-> <<lost_id, candidates[i]>>]), now)

handle_new_found(lost, found, rows, pending, found_id, candidates, now) ==
    _act(rows, pending, _evaluate_pairs(lost, found,
                   [i \in 1..Len(candidates) |-> <<candidates[i], found_id>>]), now)

-----------------------------------------------------------------------------
(* The state machine: one action per call *)

NoProbe == [kind |-> "none"]

Init ==
    /\ lost_items = <<>>
    /\ found_items = <<>>
    /\ match_results = {}
    /\ session = {}
    /\ clock = 0
    /\ calls = 0
    /\ last_call = [op |-> "create_all"]
    /\ result = None
    /\ probe = NoProbe

\* every call counts
Called == calls < MaxCalls /\ calls' = calls + 1

\* db.session.add(LostItem(...)); db.session.commit(): the commit writes
\* whatever is pending in the session
AddLost(content) ==
    LET id == MaxOf(DOMAIN lost_items) + 1
    IN  /\ Called
        /\ Cardinality(DOMAIN lost_items) < MaxLost
        /\ lost_items' = [i \in DOMAIN lost_items \cup {id} |->
                              IF i = id THEN content ELSE lost_items[i]]
        /\ last_call' = [op |-> "add_lost", id |-> id]
        /\ result' = None
        /\ match_results' = session
        /\ UNCHANGED <<found_items, session, clock, probe>>

\* db.session.add(FoundItem(...)); db.session.commit()
AddFound(content) ==
    LET id == MaxOf(DOMAIN found_items) + 1
    IN  /\ Called
        /\ Cardinality(DOMAIN found_items) < MaxFound
        /\ found_items' = [i \in DOMAIN found_items \cup {id} |->
                               IF i = id THEN content ELSE found_items[i]]
        /\ last_call' = [op |-> "add_found", id |-> id]
        /\ result' = None
        /\ match_results' = session
        /\ UNCHANGED <<lost_items, session, clock, probe>>

\* agent.handle_new_lost(lost_item) for a stored report
HandleNewLost(lost_id) ==
    /\ Called
    /\ lost_id \in DOMAIN lost_items
    /\ \E candidates \in all_found_items(found_items) :
         \E r \in {handle_new_lost(lost_items, found_items, match_results, session,
                                   lost_id, candidates, clock)} :
             /\ match_results' = r.rows
             /\ session' = r.session
             /\ result' = r.result
             /\ last_call' = [op |-> "handle_new_lost", id |-> lost_id,
                              candidates |-> candidates,
                              fresh |-> \A m \in session : m.lost_item_id # lost_id,
                              again |-> last_call.op \in {"handle_new_lost", "edit_lost_item"} /\ last_call.id = lost_id]
    /\ UNCHANGED <<lost_items, found_items, clock, probe>>

\* agent.handle_new_found(found_item) for a stored report
HandleNewFound(found_id) ==
    /\ Called
    /\ found_id \in DOMAIN found_items
    /\ \E candidates \in all_lost_items(lost_items) :
         \E r \in {handle_new_found(lost_items, found_items, match_results, session,
                                    found_id, candidates, clock)} :
             /\ match_results' = r.rows
             /\ session' = r.session
             /\ result' = r.result
             /\ last_call' = [op |-> "handle_new_found", id |-> found_id,
                              candidates |-> candidates,
                              fresh |-> \A m \in session : m.found_item_id # found_id,
                              again |-> last_call.op \in {"handle_new_found", "edit_found_item"} /\ last_call.id = found_id]
    /\ UNCHANGED <<lost_items, found_items, clock, probe>>

\* app.edit_lost_item: the fields are overwritten and committed (with
\* whatever is pending), then the matching is run again for the edited report
EditLost(lost_id, content) ==
    /\ Called
    /\ lost_id \in DOMAIN lost_items
    /\ lost_items' = [lost_items EXCEPT ![lost_id] = content]
    /\ \E candidates \in all_found_items(found_items) :
         \E r \in {handle_new_lost(lost_items', found_items, session, session,
                                   lost_id, candidates, clock)} :
             /\ match_results' = r.rows
             /\ session' = r.session
             /\ result' = r.result
             /\ last_call' = [op |-> "edit_lost_item", id |-> lost_id,
                              candidates |-> candidates,
                              fresh |-> \A m \in session : m.lost_item_id # lost_id,
                              again |-> last_call.op \in {"handle_new_lost", "edit_lost_item"} /\ last_call.id = lost_id]
    /\ UNCHANGED <<found_items, clock, probe>>

\* app.edit_found_item, likewise
EditFound(found_id, content) ==
    /\ Called
    /\ found_id \in DOMAIN found_items
    /\ found_items' = [found_items EXCEPT ![found_id] = content]
    /\ \E candidates \in all_lost_items(lost_items) :
         \E r \in {handle_new_found(lost_items, found_items', session, session,
                                    found_id, candidates, clock)} :
             /\ match_results' = r.rows
             /\ session' = r.session
             /\ result' = r.result
             /\ last_call' = [op |-> "edit_found_item", id |-> found_id,
                              candidates |-> candidates,
                              fresh |-> \A m \in session : m.found_item_id # found_id,
                              again |-> last_call.op \in {"handle_new_found", "edit_found_item"} /\ last_call.id = found_id]
    /\ UNCHANGED <<lost_items, clock, probe>>

\* service.mark_match_completed(match_id) for a stored match or an unused id
\* (it commits only when it completes the match);
\* datetime.now(UTC) returns the latest time or a later one
MarkMatchCompleted(match_id, now) ==
    LET r == mark_match_completed(session, match_id, now)
    IN  /\ Called
        /\ session' = r.rows
        /\ match_results' = IF r.rows = session THEN match_results ELSE r.rows
        /\ clock' = IF r.rows = session THEN clock ELSE now
        /\ result' = r.result
        /\ last_call' = [op |-> "mark_match_completed", id |-> match_id,
                         was_completed |-> \E m \in session :
                                               m.id = match_id /\ m.is_completed]
        /\ UNCHANGED <<lost_items, found_items, probe>>

\* service.delete_lost_item(lost_id) for a stored report or an unused id
DeleteLostItem(lost_id) ==
    LET r == delete_lost_item(lost_items, session, lost_id)
    IN  /\ Called
        /\ lost_items' = r.items
        /\ session' = r.rows
        /\ match_results' = IF lost_id \in DOMAIN lost_items THEN r.rows ELSE match_results
        /\ result' = None
        /\ last_call' = [op |-> "delete_lost_item", id |-> lost_id,
                         existed |-> lost_id \in DOMAIN lost_items,
                         matches |-> {m \in match_results : m.lost_item_id = lost_id}]
        /\ UNCHANGED <<found_items, clock, probe>>

\* service.delete_found_item(found_id) for a stored report or an unused id
DeleteFoundItem(found_id) ==
    LET r == delete_found_item(found_items, session, found_id)
    IN  /\ Called
        /\ found_items' = r.items
        /\ session' = r.rows
        /\ match_results' = IF found_id \in DOMAIN found_items THEN r.rows ELSE match_results
        /\ result' = None
        /\ last_call' = [op |-> "delete_found_item", id |-> found_id,
                         existed |-> found_id \in DOMAIN found_items,
                         matches |-> {m \in match_results : m.found_item_id = found_id}]
        /\ UNCHANGED <<lost_items, clock, probe>>

\* service.clear_matches_for_lost(lost_id)
ClearMatchesForLost(lost_id) ==
    /\ Called
    /\ session' = clear_matches_for_lost(session, lost_id)
    /\ match_results' = session'
    /\ result' = None
    /\ last_call' = [op |-> "clear_matches_for_lost", id |-> lost_id]
    /\ UNCHANGED <<lost_items, found_items, clock, probe>>

\* service.clear_matches_for_found(found_id)
ClearMatchesForFound(found_id) ==
    /\ Called
    /\ session' = clear_matches_for_found(session, found_id)
    /\ match_results' = session'
    /\ result' = None
    /\ last_call' = [op |-> "clear_matches_for_found", id |-> found_id]
    /\ UNCHANGED <<lost_items, found_items, clock, probe>>

\* the ids of a table's rows and the first unused one
IdsAndNext(ids) == ids \cup {MaxOf(ids) + 1}

Next ==
    \/ \E content \in LostContents : AddLost(content)
    \/ \E content \in FoundContents : AddFound(content)
    \/ \E lost_id \in DOMAIN lost_items : HandleNewLost(lost_id)
    \/ \E found_id \in DOMAIN found_items : HandleNewFound(found_id)
    \/ \E lost_id \in DOMAIN lost_items : \E content \in LostContents : EditLost(lost_id, content)
    \/ \E found_id \in DOMAIN found_items : \E content \in FoundContents : EditFound(found_id, content)
    \/ \E match_id \in IdsAndNext({m.id : m \in session}) : \E now \in clock..MaxClock : MarkMatchCompleted(match_id, now)
    \/ \E lost_id \in IdsAndNext(DOMAIN lost_items) : DeleteLostItem(lost_id)
    \/ \E found_id \in IdsAndNext(DOMAIN found_items) : DeleteFoundItem(found_id)
    \/ \E lost_id \in DOMAIN lost_items : ClearMatchesForLost(lost_id)
    \/ \E found_id \in DOMAIN found_items : ClearMatchesForFound(found_id)

Spec == Init /\ [][Next]_vars

\* The same calls on one shared session, with a stored report whose
\* description is missing: the evaluation of its pairs raises
NextSession ==
    \/ \E content \in SessionLostContents : AddLost(content)
    \/ \E content \in SessionFoundContents : AddFound(content)
    \/ \E lost_id \in DOMAIN lost_items : HandleNewLost(lost_id)
    \/ \E found_id \in DOMAIN found_items : HandleNewFound(found_id)
    \/ \E lost_id \in DOMAIN lost_items : \E content \in SessionLostContents : EditLost(lost_id, content)
    \/ \E found_id \in DOMAIN found_items : \E content \in SessionFoundContents : EditFound(found_id, content)
    \/ \E match_id \in IdsAndNext({m.id : m \in session}) : \E now \in clock..MaxClock : MarkMatchCompleted(match_id, now)
    \/ \E lost_id \in IdsAndNext(DOMAIN lost_items) : DeleteLostItem(lost_id)
    \/ \E found_id \in IdsAndNext(DOMAIN found_items) : DeleteFoundItem(found_id)
    \/ \E lost_id \in DOMAIN lost_items : ClearMatchesForLost(lost_id)
    \/ \E found_id \in DOMAIN found_items : ClearMatchesForFound(found_id)

SessionSpec == Init /\ [][NextSession]_vars

\* The match store on its own: upsert_match called directly, followed by
\* bulk_persist as _act follows it, at a time now
StoreOutcomes == {RuleOutcome(98, HIGH, "reason1"), RuleOutcome(55, LOW, "reason7")}

UpsertMatch(lost_id, found_id, outcome, now) ==
    LET u == upsert_match(session, lost_id, found_id,
                          outcome.score, outcome.level, outcome.reason)
        p == bulk_persist(match_results, flush(session, u.rows, now), <<u.match>>)
    IN  /\ Called
        /\ match_results' = p.rows
        /\ session' = p.rows
        /\ clock' = IF p.rows = match_results THEN clock ELSE now
        /\ result' = [kind |-> "MatchResult", id |-> u.match]
        /\ last_call' = [op |-> "upsert_match", lost_item_id |-> lost_id,
                         found_item_id |-> found_id, outcome |-> outcome]
        /\ UNCHANGED <<lost_items, found_items, probe>>

NextStore ==
    \/ \E content \in LostContents : AddLost(content)
    \/ \E content \in FoundContents : AddFound(content)
    \/ \E lost_id \in DOMAIN lost_items : \E found_id \in DOMAIN found_items :
           \E outcome \in StoreOutcomes : \E now \in clock..MaxClock :
               UpsertMatch(lost_id, found_id, outcome, now)
    \/ \E match_id \in IdsAndNext({m.id : m \in session}) : \E now \in clock..MaxClock : MarkMatchCompleted(match_id, now)

StoreSpec == Init /\ [][NextStore]_vars

-----------------------------------------------------------------------------
(* The decision rules on their own: every probe is decided once *)

\* largest day gap, largest keyword overlap and the resolution of the
\* similarities handed to decide_rules
MaxGap == 9

MaxOverlap == 4

SimSteps == 100

\* U+624B U+673A " x", "x " U+624B U+673A " qqqqq",
\* U+7EA2 U+8272 U+624B U+673A U+58F3 and "key"
DescPhoneX == Str(<<25163, 26426, 32, 120>>)

DescXPhoneQ == Str(<<120, 32, 25163, 26426, 32, 113, 113, 113, 113, 113>>)

DescRedPhoneCase == Str(<<32418, 33394, 25163, 26426, 22771>>)

DescKey == Str(<<107, 101, 121>>)

\* " "
Blank == Str(<<32>>)

InputProbes ==
    [kind : {"inputs"},
     category_match : BOOLEAN,
     location_match : BOOLEAN,
     time_gap_days : {None} \cup {[kind |-> "int", n |-> n] : n \in 0..MaxGap},
     description_similarity : {<<n, SimSteps>> : n \in 0..SimSteps},
     keyword_overlap : 0..MaxOverlap]

ProbeLost ==
    {Report(c, d, l, t) : c \in {None, CatId, CatKey},
                          d \in {DescBlackPhone, DescPhoneX},
                          l \in {LocLib, LocGym},
                          t \in {None, DateTime(48)}}

ProbeFound ==
    {Report(c, d, l, t) :
        c \in {None, Blank, CatIdLower, CatKey},
        d \in {DescBlackPhone, DescPhone, DescXPhoneQ, DescRedPhoneCase, DescKey},
        l \in {None, LocLibLower, LocGym},
        t \in {None, DateTime(0), DateTime(49), DateTime(97), DateTime(168),
               DateTime(216), DateTime(240)}}

PairProbes == [kind : {"pair"}, lost_item : ProbeLost, found_item : ProbeFound]

InitDecide ==
    /\ lost_items = <<>>
    /\ found_items = <<>>
    /\ match_results = {}
    /\ session = {}
    /\ clock = 0
    /\ calls = 0
    /\ last_call = [op |-> "probe"]
    /\ result = None
    /\ probe \in InputProbes \cup PairProbes

\* the cascade applied to five given inputs
DecideInputs ==
    /\ last_call.op = "probe"
    /\ probe.kind = "inputs"
    /\ result' = decide_rules(probe.category_match, probe.location_match,
                              probe.time_gap_days, probe.description_similarity,
                              probe.keyword_overlap)
    /\ last_call' = [op |-> "decide_rules"]
    /\ UNCHANGED <<lost_items, found_items, match_results, session, clock, calls, probe>>

\* _decide applied to a pair of reports
DecidePair ==
    /\ last_call.op = "probe"
    /\ probe.kind = "pair"
    /\ result' = _decide(probe.lost_item, probe.found_item)
    /\ last_call' = [op |-> "_decide"]
    /\ UNCHANGED <<lost_items, found_items, match_results, session, clock, calls, probe>>

NextDecide == DecideInputs \/ DecidePair

DecideSpec == InitDecide /\ [][NextDecide]_vars

\* The listing queries on their own: a table is drawn, then listed once
MaxLimit == 2

\* the rows come in the order of the ORDER BY clause
sorted_by(s, Before(_, _)) == \A i \in DOMAIN s : \A j \in DOMAIN s : i < j => ~Before(s[j], s[i])

\* every order the rows can be returned in under a given ORDER BY
orderings(rows, Before(_, _)) ==
    {s \in [1..Cardinality(rows) -> rows] :
        /\ \A i \in DOMAIN s : \A j \in DOMAIN s : s[i] = s[j] => i = j
        /\ sorted_by(s, Before)}

\* ORDER BY with the score ascending
order_by_listing_score_asc(rows) ==
    orderings(rows, LAMBDA a, b :
        \/ ~a.is_completed /\ b.is_completed
        \/ a.is_completed = b.is_completed /\ a.score < b.score
        \/ a.is_completed = b.is_completed /\ a.score = b.score
              /\ a.updated_at.h > b.updated_at.h)

\* order_by(is_completed.asc(), score.desc(), updated_at.desc()); rows with
\* equal keys come in any order
order_by_listing(rows) ==
    orderings(rows, LAMBDA a, b :
        \/ ~a.is_completed /\ b.is_completed
        \/ a.is_completed = b.is_completed /\ a.score > b.score
        \/ a.is_completed = b.is_completed /\ a.score = b.score
              /\ a.updated_at.h > b.updated_at.h)

\* .limit(limit)
limit_to(s, limit) == SubSeq(s, 1, Min(limit, Len(s)))

matches_for_lost(rows, lost_id) ==
    order_by_listing({m \in rows : m.lost_item_id = lost_id})

matches_for_found(rows, found_id) ==
    order_by_listing({m \in rows : m.found_item_id = found_id})

recent_matches(rows, limit) == {limit_to(s, limit) : s \in order_by_listing(rows)}

matches_for_user(rows, lost, found, user_id, limit) ==
    {limit_to(s, limit) :
        s \in order_by_listing({m \in rows : \/ lost[m.lost_item_id].user_id = user_id
                                              \/ found[m.found_item_id].user_id = user_id})}

\* a stored match with the columns the listings read
ListedRow(id, lost_item_id, found_item_id, score, is_completed, updated_at) ==
    [MatchResult(id, lost_item_id, found_item_id, score, None, None)
        EXCEPT !.is_completed = is_completed,
               !.completed_at = IF is_completed THEN DateTime(updated_at) ELSE None,
               !.created_at = DateTime(0),
               !.updated_at = DateTime(updated_at)]

\* three matches over two lost and two found reports of two users
ListedTables ==
    {{ListedRow(1, 1, 1, c[1][1], c[1][2], c[1][3]),
      ListedRow(2, 1, 2, c[2][1], c[2][2], c[2][3]),
      ListedRow(3, 2, 1, c[3][1], c[3][2], c[3][3])} :
        c \in [1..3 -> {98, 65} \X BOOLEAN \X (0..MaxClock)]}

InitList ==
    /\ lost_items = <<[user_id |-> 1], [user_id |-> 2]>>
    /\ found_items = <<[user_id |-> 2], [user_id |-> 3]>>
    /\ match_results \in ListedTables
    /\ session = match_results
    /\ clock = MaxClock
    /\ calls = 0
    /\ last_call = [op |-> "probe"]
    /\ result = None
    /\ probe = NoProbe

Listed(op, rows) ==
    /\ last_call.op = "probe"
    /\ result' = List(rows)
    /\ last_call' = [op |-> op]
    /\ UNCHANGED <<lost_items, found_items, match_results, session, clock, calls, probe>>

MatchesForLost(lost_id) ==
    \E rows \in matches_for_lost(session, lost_id) : Listed("matches_for_lost", rows)

MatchesForFound(found_id) ==
    \E rows \in matches_for_found(session, found_id) : Listed("matches_for_found", rows)

RecentMatches(limit) ==
    \E rows \in recent_matches(session, limit) : Listed("recent_matches", rows)

MatchesForUser(user_id, limit) ==
    \E rows \in matches_for_user(session, lost_items, found_items, user_id, limit) :
        Listed("matches_for_user", rows)

NextList ==
    \/ \E lost_id \in DOMAIN lost_items : MatchesForLost(lost_id)
    \/ \E found_id \in DOMAIN found_items : MatchesForFound(found_id)
    \/ \E limit \in 1..MaxLimit : RecentMatches(limit)
    \/ \E user_id \in 1..3 : \E limit \in 1..MaxLimit : MatchesForUser(user_id, limit)

ListSpec == InitList /\ [][NextList]_vars

\* Pairs of reports with text fields missing
MissingLost ==
    {Report(c, d, l, DateTime(48)) : c \in {None, CatId},
                                     d \in {None, DescBlackPhone},
                                     l \in {None, LocLib}}

MissingFound ==
    {Report(c, d, l, t) : c \in {None, CatIdLower},
                          d \in {None, DescPhone},
                          l \in {None, LocLibLower},
                          t \in {None, DateTime(49)}}

InitMissing ==
    /\ lost_items = <<>>
    /\ found_items = <<>>
    /\ match_results = {}
    /\ session = {}
    /\ clock = 0
    /\ calls = 0
    /\ last_call = [op |-> "probe"]
    /\ result = None
    /\ probe \in [kind : {"pair"}, lost_item : MissingLost, found_item : MissingFound]

MissingFieldSpec == InitMissing /\ [][DecidePair]_vars

-----------------------------------------------------------------------------
(* Two requests at once: a handle_new_* invocation taken step by step in its
   own session, and mark_match_completed called by another request in
   between.  match_results is the committed table, session the rows the
   invocation holds in memory, probe its position. *)

\* the calls of a behaviour of RaceSpec after which no invocation begins and
\* no match is completed
RaceCalls == 5

\* the invocation's position: the pairs still to evaluate, the rows as its
\* queries loaded them, the matches of persisted
Request(op, id, pairs) ==
    [kind |-> "request", op |-> op, id |-> id, pairs |-> pairs,
     loaded |-> {}, persisted |-> <<>>]

\* session.commit() that writes a whole row for every changed object
commit_over_whole_rows(table, loaded, mine, now) ==
    {IF \E m \in mine : m.id = d.id /\ m \notin loaded
         THEN [(CHOOSE m \in mine : m.id = d.id) EXCEPT !.updated_at = DateTime(now)]
         ELSE d : d \in table}
    \cup {[m EXCEPT !.created_at = DateTime(now), !.updated_at = DateTime(now)] :
              m \in {n \in mine : n.created_at = None}}

\* session.commit() of the invocation at time now, on a table that another
\* request may have changed since the rows were loaded: an object that was
\* added is inserted with its column defaults; for an object that was loaded,
\* the UPDATE sets the columns whose value the invocation changed (upsert_match
\* assigns score, level and reason) and updated_at, and no other column
commit_over(table, loaded, mine, now) ==
    {IF \E m \in mine : m.id = d.id /\ m \notin loaded
         THEN LET m == CHOOSE m \in mine : m.id = d.id
                  b == CHOOSE b \in loaded : b.id = d.id
              IN  [d EXCEPT !.score = IF m.score # b.score THEN m.score ELSE @,
                            !.level = IF m.level # b.level THEN m.level ELSE @,
                            !.reason = IF m.reason # b.reason THEN m.reason ELSE @,
                            !.updated_at = DateTime(now)]
         ELSE d : d \in table}
    \cup {[m EXCEPT !.created_at = DateTime(now), !.updated_at = DateTime(now)] :
              m \in {n \in mine : n.created_at = None}}

\* a request adds a report while no invocation is under way
AddLostReport(content) == probe = NoProbe /\ AddLost(content)

AddFoundReport(content) == probe = NoProbe /\ AddFound(content)

\* handle_new_lost begins, for a new report or after an edit has changed and
\* committed its content: the candidates are read; the session of the request
\* holds no match yet
BeginHandleLost(lost_id, content) ==
    /\ Called
    /\ calls < RaceCalls
    /\ probe = NoProbe
    /\ lost_id \in DOMAIN lost_items
    /\ lost_items' = [lost_items EXCEPT ![lost_id] = content]
    /\ \E candidates \in all_found_items(found_items) :
           probe' = Request("handle_new_lost", lost_id,
                            [i \in 1..Len(candidates) |-> <<lost_id, candidates[i]>>])
    /\ last_call' = [op |-> "handle_new_lost", id |-> lost_id]
    /\ result' = None
    /\ session' = {}
    /\ UNCHANGED <<found_items, match_results, clock>>

\* handle_new_found begins for a stored report
BeginHandleFound(found_id) ==
    /\ Called
    /\ calls < RaceCalls
    /\ probe = NoProbe
    /\ found_id \in DOMAIN found_items
    /\ \E candidates \in all_lost_items(lost_items) :
           probe' = Request("handle_new_found", found_id,
                            [i \in 1..Len(candidates) |-> <<candidates[i], found_id>>])
    /\ last_call' = [op |-> "handle_new_found", id |-> found_id]
    /\ result' = None
    /\ session' = {}
    /\ UNCHANGED <<lost_items, found_items, match_results, clock>>

\* one turn of the loop of _act: the next pair is evaluated and, when it has
\* an outcome, upserted; the query of upsert_match reads the committed row of
\* the pair into the session
UpsertNext ==
    /\ probe # NoProbe
    /\ probe.pairs # <<>>
    /\ LET pair == Head(probe.pairs)
           outcome == DecideTable[<<lost_items[pair[1]], found_items[pair[2]]>>]
           held == {m.id : m \in session}
           seen == session \cup {d \in match_results : d.id \notin held}
           u == upsert_match(seen, pair[1], pair[2],
                             outcome.score, outcome.level, outcome.reason)
       IN  IF outcome = None
           THEN /\ probe' = [probe EXCEPT !.pairs = Tail(@)]
                /\ UNCHANGED session
           ELSE /\ session' = {m \in session : m.id # u.match}
                                 \cup {m \in u.rows : m.id = u.match}
                /\ probe' = [probe EXCEPT
                                !.pairs = Tail(@),
                                !.loaded = @ \cup {d \in match_results :
                                                      d.id = u.match /\ d.id \notin held},
                                !.persisted = Append(@, u.match)]
    /\ last_call' = [op |-> "upsert_match", pair |-> Head(probe.pairs)]
    /\ UNCHANGED <<lost_items, found_items, match_results, clock, calls, result>>

\* the end of _act: bulk_persist commits when anything was upserted.  raced
\* are the matches that another request completed after this one loaded them.
BulkPersist ==
    /\ probe # NoProbe
    /\ probe.pairs = <<>>
    /\ match_results' = IF probe.persisted = <<>> THEN match_results
                        ELSE commit_over(match_results, probe.loaded, session, clock)
    /\ session' = match_results'
    /\ probe' = NoProbe
    /\ result' = List(probe.persisted)
    /\ last_call' = [op |-> "bulk_persist", id |-> probe.id,
                     raced |-> {d \in match_results :
                                   /\ d.is_completed
                                   /\ \E b \in probe.loaded :
                                          b.id = d.id /\ ~b.is_completed}]
    /\ UNCHANGED <<lost_items, found_items, clock, calls>>

\* mark_match_completed in a request of its own: it reads the committed row
\* and commits; the session of an invocation under way does not see it
MarkInOtherRequest(match_id, now) ==
    LET r == mark_match_completed(match_results, match_id, now)
    IN  /\ Called
        /\ calls < RaceCalls
        /\ match_results' = r.rows
        /\ session' = IF probe = NoProbe THEN r.rows ELSE session
        /\ clock' = IF r.rows = match_results THEN clock ELSE now
        /\ result' = r.result
        /\ last_call' = [op |-> "mark_match_completed", id |-> match_id,
                         was_completed |-> \E m \in match_results :
                                               m.id = match_id /\ m.is_completed]
        /\ UNCHANGED <<lost_items, found_items, probe>>

NextRace ==
    \/ \E content \in LostContents : AddLostReport(content)
    \/ \E content \in FoundContents : AddFoundReport(content)
    \/ \E lost_id \in DOMAIN lost_items : \E content \in LostContents :
           BeginHandleLost(lost_id, content)
    \/ \E found_id \in DOMAIN found_items : BeginHandleFound(found_id)
    \/ UpsertNext
    \/ BulkPersist
    \/ \E match_id \in {m.id : m \in match_results} : \E now \in clock..MaxClock :
           MarkInOtherRequest(match_id, now)

RaceSpec == Init /\ [][NextRace]_vars

-----------------------------------------------------------------------------
(* Properties *)

HandleLostOps == {"handle_new_lost", "edit_lost_item"}

HandleFoundOps == {"handle_new_found", "edit_found_item"}

HandleOps == HandleLostOps \cup HandleFoundOps

\* the step is a call (every call counts itself)
IsCall == calls' = calls + 1

\* the pair a handle call evaluates for candidate c
PairOf(call, c) == IF call.op \in HandleLostOps THEN <<call.id, c>> ELSE <<c, call.id>>

\* the rows stored for a pair
RowsOf(rows, pair) ==
    {m \in rows : m.lost_item_id = pair[1] /\ m.found_item_id = pair[2]}

\* what the rules say about a pair of stored reports
OutcomeOf(lost, found, pair) == DecideTable[<<lost[pair[1]], found[pair[2]]>>]

\* C1: the store never holds two matches for the same (lost_item_id,
\* found_item_id) pair and no call is refused by the uniqueness constraint;
\* after handle_new_lost has run twice in succession for a lost report, every
\* found report the rules accept for it has exactly one match.
C1_PairUniqueness ==
    /\ \A m \in match_results : Cardinality(RowsOf(match_results,
                                    <<m.lost_item_id, m.found_item_id>>)) = 1
    /\ result.kind # "raise"
    /\ (last_call.op = "handle_new_lost" /\ last_call.again) =>
           \A f \in DOMAIN found_items :
               OutcomeOf(lost_items, found_items, <<last_call.id, f>>) # None
                   => Cardinality(RowsOf(match_results, <<last_call.id, f>>)) = 1

\* handle_new_lost has just run a second time in succession and returned matches
C1_Witness ==
    /\ last_call.op = "handle_new_lost"
    /\ last_call.again
    /\ result.kind = "list"
    /\ result.items # <<>>
    /\ \E m \in match_results : m.lost_item_id = last_call.id

\* C2: a handle_new_lost / handle_new_found call (also the one an edit runs)
\* leaves every completed match exactly as it is: same score, level, reason,
\* is_completed and completed_at.
C2_CompletionFreeze ==
    [][(IsCall /\ last_call'.op \in HandleOps) =>
           \A m \in match_results : m.is_completed => m \in match_results']_vars

\* a handle call has just evaluated the pair of a completed match for which
\* the rules now give another score, and the match still has the old one
C2_Witness ==
    /\ last_call.op \in HandleOps
    /\ \E m \in match_results :
         /\ m.is_completed
         /\ <<m.lost_item_id, m.found_item_id>> \in
                {PairOf(last_call, last_call.candidates[i]) :
                     i \in DOMAIN last_call.candidates}
         /\ LET now == OutcomeOf(lost_items, found_items,
                                 <<m.lost_item_id, m.found_item_id>>)
            IN  now # None /\ now.score # m.score

\* C3: no stored match references a report that is not stored, and
\* delete_lost_item / delete_found_item on a stored report removes the report
\* and every match that references it.
C3_CascadeDelete ==
    [][/\ \A m \in match_results' : /\ m.lost_item_id \in DOMAIN lost_items'
                                    /\ m.found_item_id \in DOMAIN found_items'
       /\ (IsCall /\ last_call'.op = "delete_lost_item"
                  /\ last_call'.id \in DOMAIN lost_items) =>
              /\ last_call'.id \notin DOMAIN lost_items'
              /\ \A m \in match_results' : m.lost_item_id # last_call'.id
       /\ (IsCall /\ last_call'.op = "delete_found_item"
                  /\ last_call'.id \in DOMAIN found_items) =>
              /\ last_call'.id \notin DOMAIN found_items'
              /\ \A m \in match_results' : m.found_item_id # last_call'.id]_vars

\* delete_lost_item has just removed a report that had a completed and a
\* non-completed match
C3_Witness ==
    /\ last_call.op = "delete_lost_item"
    /\ last_call.existed
    /\ \E m \in last_call.matches : m.is_completed
    /\ \E m \in last_call.matches : ~m.is_completed
    /\ last_call.id \notin DOMAIN lost_items
    /\ \A m \in match_results : m.lost_item_id # last_call.id

\* C4: a handle_new_lost call that directly follows a handle_new_lost call
\* for the same report leaves the set of matches as it is: the same rows,
\* with the same ids, pairs, scores, levels, reasons and completion state.
C4_Idempotent ==
    [][(/\ IsCall
        /\ last_call.op \in HandleLostOps
        /\ last_call'.op = "handle_new_lost"
        /\ last_call'.id = last_call.id) => match_results' = match_results]_vars

\* the second of two successive calls has just run over an open match
C4_Witness ==
    /\ last_call.op = "handle_new_lost"
    /\ last_call.again
    /\ \E m \in match_results : m.lost_item_id = last_call.id /\ ~m.is_completed
    /\ result.kind = "list"
    /\ result.items # <<>>

\* C5: mark_match_completed on a stored match that is not completed sets
\* is_completed and stamps completed_at (and updated_at) with the current
\* time, changing nothing else; on a completed match it changes nothing.
C5_MarkIdempotent ==
    [][(IsCall /\ last_call'.op = "mark_match_completed") =>
           \A m \in match_results : m.id = last_call'.id =>
               IF m.is_completed THEN match_results' = match_results
               ELSE /\ clock' >= clock
                    /\ match_results' = (match_results \ {m}) \cup
                           {[m EXCEPT !.is_completed = TRUE,
                                      !.completed_at = DateTime(clock'),
                                      !.updated_at = DateTime(clock')]}]_vars

\* mark_match_completed has just been called on a match that was completed
\* already
C5_Witness ==
    /\ last_call.op = "mark_match_completed"
    /\ last_call.was_completed
    /\ \E m \in match_results : /\ m.id = last_call.id
                                /\ m.is_completed
                                /\ m.completed_at # None

\* the eight rows of the rule table, on the five inputs of a probe
TableRule(i, p) ==
    LET gap_at_most(days) == p.time_gap_days # None /\ p.time_gap_days.n <= days
        sim_at_least(pct) ==
            100 * p.description_similarity[1] >= pct * p.description_similarity[2]
    IN  CASE i = 1 -> p.category_match /\ p.location_match /\ gap_at_most(2)
          [] i = 2 -> p.category_match /\ p.location_match /\ sim_at_least(50)
          [] i = 3 -> p.category_match /\ (sim_at_least(65) \/ p.keyword_overlap >= 3)
          [] i = 4 -> p.category_match /\ p.location_match /\ gap_at_most(7)
          [] i = 5 -> p.category_match /\ gap_at_most(5) /\ p.keyword_overlap >= 1
          [] i = 6 -> sim_at_least(60) /\ p.location_match
          [] i = 7 -> \/ p.category_match /\ sim_at_least(40)
                      \/ sim_at_least(50) /\ p.keyword_overlap >= 2
          [] i = 8 -> p.location_match /\ p.keyword_overlap >= 2 /\ sim_at_least(35)

TableScore == <<98, 90, 80, 75, 70, 65, 55, 45>>

TableLevel == <<HIGH, HIGH, MEDIUM, MEDIUM, MEDIUM, MEDIUM, LOW, LOW>>

\* C6: for every combination of the five inputs the cascade returns the score
\* and level of the first row of the rule table whose condition holds, and no
\* outcome exactly when no row's condition holds.
C6_RuleCascade ==
    last_call.op = "decide_rules" =>
        LET holds == {i \in 1..8 : TableRule(i, probe)}
        IN  IF holds = {} THEN result = None
            ELSE LET first == CHOOSE i \in holds : \A j \in holds : i <= j
                 IN  /\ result.kind = "RuleOutcome"
                     /\ result.score = TableScore[first]
                     /\ result.level = TableLevel[first]

\* category equal, location different, gap unknown, similarity 0.7 has just
\* been decided as 80 MEDIUM
C6_Witness ==
    /\ last_call.op = "decide_rules"
    /\ probe.category_match
    /\ ~probe.location_match
    /\ probe.time_gap_days = None
    /\ probe.description_similarity = <<70, 100>>
    /\ probe.keyword_overlap = 0
    /\ result.score = 80
    /\ result.level = MEDIUM

\* C7: whenever category and location agree and the gap is known and at most
\* 2 days, the decision is 98 HIGH, whatever the similarity and the overlap
\* are; both for given inputs and for a pair of reports.
C7_Rule1Wins ==
    /\ (/\ last_call.op = "decide_rules"
        /\ probe.category_match
        /\ probe.location_match
        /\ probe.time_gap_days # None
        /\ probe.time_gap_days.n <= 2)
           => result = RuleOutcome(98, HIGH, "reason1")
    /\ (/\ last_call.op = "_decide"
        /\ _normalize(probe.lost_item.category) = _normalize(probe.found_item.category)
        /\ _normalize(probe.lost_item.location) = _normalize(probe.found_item.location)
        /\ probe.lost_item.occurred_at # None
        /\ probe.found_item.occurred_at # None
        /\ _time_difference_days(probe.lost_item.occurred_at,
                                 probe.found_item.occurred_at).n <= 2)
           => result = RuleOutcome(98, HIGH, "reason1")

\* a pair with equal descriptions (so that rules 2 and 3 hold as well), equal
\* category and location up to case and blanks, one hour apart, got 98 HIGH
C7_Witness ==
    /\ last_call.op = "_decide"
    /\ probe.lost_item = Report(CatId, DescBlackPhone, LocLib, DateTime(48))
    /\ probe.found_item = Report(CatIdLower, DescBlackPhone, LocLibLower, DateTime(49))
    /\ result = RuleOutcome(98, HIGH, "reason1")

\* the scores _decide gives to the probed pairs that lack a timestamp
UnknownGapScores ==
    {_decide(p.lost_item, p.found_item).score :
        p \in {q \in PairProbes :
                 /\ q.lost_item.occurred_at = None \/ q.found_item.occurred_at = None
                 /\ _decide(q.lost_item, q.found_item).kind = "RuleOutcome"}}

\* C8: with occurred_at missing on either report the gap is None, nothing is
\* raised and the outcome is never that of rule 1, 4 or 5; with a gap of None
\* among given inputs likewise; and such pairs are matched by each of the
\* rules 2, 3, 6, 7 and 8.
C8_UnknownGap ==
    /\ (/\ last_call.op = "_decide"
        /\ \/ probe.lost_item.occurred_at = None
           \/ probe.found_item.occurred_at = None)
           => /\ _time_difference_days(probe.lost_item.occurred_at,
                                       probe.found_item.occurred_at) = None
              /\ result.kind \in {"None", "RuleOutcome"}
              /\ result.kind = "RuleOutcome" => result.score \notin {98, 75, 70}
    /\ (last_call.op = "decide_rules" /\ probe.time_gap_days = None)
           => (result.kind = "RuleOutcome" => result.score \notin {98, 75, 70})
    /\ UnknownGapScores = {90, 80, 65, 55, 45}

\* a pair without any timestamp, equal in category and location, got 90 HIGH
C8_Witness ==
    /\ last_call.op = "_decide"
    /\ probe.lost_item.occurred_at = None
    /\ probe.found_item.occurred_at = None
    /\ result = RuleOutcome(90, HIGH, "reason2")

\* the candidates of a handle call for which the rules give an outcome, in
\* the order of their evaluation
Accepted(call, lost, found) ==
    SelectSeq(call.candidates,
              LAMBDA c : OutcomeOf(lost, found, PairOf(call, c)) # None)

\* the pair of candidate c had a completed match when the call began
WasCompleted(rows, call, c) == \E m \in RowsOf(rows, PairOf(call, c)) : m.is_completed

\* the id of the match stored for the pair of candidate c
IdOf(rows, call, c) == (CHOOSE m \in RowsOf(rows, PairOf(call, c)) : TRUE).id

\* C9: a handle call pairs its report with every report of the other table,
\* once each; the matches of the pairs without an outcome are left as they
\* were and the result has one entry per pair with an outcome; when the report
\* had no match before the call, afterwards a match for a pair exists exactly
\* when the rules give the pair an outcome and it carries that outcome's
\* score, level and reason, and the matches of other reports are untouched;
\* when no pair has an outcome, the store is unchanged and the result is the
\* empty list.
C9_ExactlyMatchingPairs ==
    [][(IsCall /\ last_call'.op \in HandleOps) =>
        \A call \in {last_call'} :
        \A others \in {IF call.op \in HandleLostOps THEN DOMAIN found_items'
                       ELSE DOMAIN lost_items'} :
        \A with_outcome \in
               {{c \in others :
                    OutcomeOf(lost_items', found_items', PairOf(call, c)) # None}} :
            /\ {call.candidates[i] : i \in DOMAIN call.candidates} = others
            /\ Len(call.candidates) = Cardinality(others)
            /\ result'.kind = "list"
            /\ Len(result'.items) = Cardinality(with_outcome)
            /\ \A c \in others \ with_outcome :
                   RowsOf(match_results', PairOf(call, c))
                       = RowsOf(match_results, PairOf(call, c))
            /\ call.fresh =>
                   /\ match_results \subseteq match_results'
                   /\ \A m \in match_results' \ match_results :
                          IF call.op \in HandleLostOps
                          THEN m.lost_item_id = call.id /\ m.found_item_id \in with_outcome
                          ELSE m.found_item_id = call.id /\ m.lost_item_id \in with_outcome
                   /\ \A c \in with_outcome :
                      \A rows \in {RowsOf(match_results', PairOf(call, c))} :
                      \A outcome \in {OutcomeOf(lost_items', found_items', PairOf(call, c))} :
                          /\ Cardinality(rows) = 1
                          /\ \A m \in rows : /\ m.score = outcome.score
                                             /\ m.level = outcome.level
                                             /\ m.reason = outcome.reason
            /\ with_outcome = {} =>
                   /\ match_results' = match_results
                   /\ result'.items = <<>>]_vars

\* handle_new_lost has just run for a report without matches, against two
\* found reports of which the rules accept one, and stored that one match
C9_Witness ==
    /\ last_call.op = "handle_new_lost"
    /\ last_call.fresh
    /\ Len(last_call.candidates) = 2
    /\ Len(result.items) = 1
    /\ Cardinality({m \in match_results : m.lost_item_id = last_call.id}) = 1
    /\ \E i \in 1..2 :
           OutcomeOf(lost_items, found_items,
                     PairOf(last_call, last_call.candidates[i])) = None

\* C10 as stated: the returned list holds the matches this call created or
\* refreshed and only those, one per pair, in the order of evaluation.
C10_OnlyTouchedReturned ==
    [][(IsCall /\ last_call'.op \in HandleOps) =>
        LET call == last_call'
            touched == SelectSeq(Accepted(call, lost_items', found_items'),
                                 LAMBDA c : ~WasCompleted(match_results, call, c))
        IN  result'.items = [i \in 1..Len(touched) |->
                                 IdOf(match_results', call, touched[i])]]_vars

\* C10: the returned list holds one entry per candidate pair the rules accept,
\* in the order of evaluation: the match created or refreshed for the pair or,
\* where the pair's match was completed before the call, that completed match,
\* which the call has not touched.
C10_ReturnValue ==
    [][(IsCall /\ last_call'.op \in HandleOps) =>
        \A call \in {last_call'} :
        \A accepted \in {Accepted(call, lost_items', found_items')} :
            /\ Len(result'.items) = Len(accepted)
            /\ \A i \in DOMAIN accepted :
                   /\ \E m \in RowsOf(match_results', PairOf(call, accepted[i])) :
                          m.id = result'.items[i]
                   /\ \A m \in RowsOf(match_results, PairOf(call, accepted[i])) :
                          m.is_completed =>
                              m.id = result'.items[i] /\ m \in match_results']_vars

\* a handle call has just returned two matches, a completed one among them,
\* in an order that is not the order of their ids
C10_Witness ==
    /\ last_call.op \in HandleOps
    /\ result.kind = "list"
    /\ Len(result.items) = 2
    /\ result.items[1] > result.items[2]
    /\ \E m \in match_results : m.is_completed /\ m.id = result.items[1]

\* the report a handle call is run for is the one of the pair
OwnPair(call, m) ==
    IF call.op \in HandleLostOps THEN m.lost_item_id = call.id
    ELSE m.found_item_id = call.id

\* C11: a handle call that raises persists nothing, and what it left undone
\* is not persisted later either: a row enters the committed table, or changes
\* in it, only through a handle call that returned its list, for a pair of that
\* call's report, or through the mark_match_completed call that completes it.
C11_AllOrNothing ==
    [][IsCall =>
        /\ (last_call'.op \in HandleOps /\ result'.kind = "raise")
               => match_results' = match_results
        /\ \A m \in match_results' \ match_results :
               \/ /\ last_call'.op \in HandleOps
                  /\ result'.kind = "list"
                  /\ OwnPair(last_call', m)
               \/ /\ last_call'.op = "mark_match_completed"
                  /\ m.id = last_call'.id
                  /\ \E o \in match_results :
                         m = [o EXCEPT !.is_completed = TRUE,
                                       !.completed_at = m.completed_at,
                                       !.updated_at = m.updated_at]]_vars

\* a handle call has raised after upserting a match, which is pending
C11_RaisedWithPending ==
    /\ last_call.op \in HandleOps
    /\ result.kind = "raise"
    /\ session # match_results

\* C12: upsert_match for a pair with an open match overwrites that match's
\* score, level and reason and leaves its id, pair, is_completed, completed_at
\* and created_at as they were, adds no row and leaves every other match as it
\* was; for a pair without a match it adds exactly one row, open, with the
\* given values.
C12_UpsertFrame ==
    [][(IsCall /\ last_call'.op = "upsert_match") =>
        \A call \in {last_call'} :
        \A before \in {RowsOf(match_results, <<call.lost_item_id, call.found_item_id>>)} :
            /\ before = {} =>
                   \E m \in match_results' :
                       /\ match_results' = match_results \cup {m}
                       /\ \A o \in match_results : o.id # m.id
                       /\ m.lost_item_id = call.lost_item_id
                       /\ m.found_item_id = call.found_item_id
                       /\ m.score = call.outcome.score
                       /\ m.level = call.outcome.level
                       /\ m.reason = call.outcome.reason
                       /\ ~m.is_completed
                       /\ m.completed_at = None
            /\ \A o \in before : ~o.is_completed =>
                   \E m \in match_results' :
                       /\ match_results' = (match_results \ {o}) \cup {m}
                       /\ m = [o EXCEPT !.score = call.outcome.score,
                                        !.level = call.outcome.level,
                                        !.reason = call.outcome.reason,
                                        !.updated_at = m.updated_at]]_vars

\* upsert_match has just given an open match another score, later than the
\* match was created
C12_Witness ==
    /\ last_call.op = "upsert_match"
    /\ \E m \in match_results :
           /\ m.id = result.id
           /\ ~m.is_completed
           /\ m.score = last_call.outcome.score
           /\ m.created_at.h < m.updated_at.h
    /\ Cardinality(match_results) = 2

\* C13: a handle call removes no match and changes no match's is_completed
\* or completed_at (nor its id or pair), and completes none; a match of the
\* call's report whose pair the rules no longer accept stays exactly as it was.
C13_NeverDeletesOrCompletes ==
    [][(IsCall /\ last_call'.op \in HandleOps) =>
        /\ \A m \in match_results :
               /\ \E n \in match_results' :
                      /\ n.id = m.id
                      /\ n.lost_item_id = m.lost_item_id
                      /\ n.found_item_id = m.found_item_id
                      /\ n.is_completed = m.is_completed
                      /\ n.completed_at = m.completed_at
               /\ (/\ OwnPair(last_call', m)
                   /\ OutcomeOf(lost_items', found_items',
                                <<m.lost_item_id, m.found_item_id>>) = None)
                      => m \in match_results'
        /\ \A n \in match_results' : n.is_completed => n \in match_results]_vars

\* a handle call run by an edit has just evaluated a pair that has a match and
\* that the rules no longer accept; the match is still stored
C13_Witness ==
    /\ last_call.op \in {"edit_lost_item", "edit_found_item"}
    /\ result = List(<<>>)
    /\ \E m \in match_results :
           /\ OwnPair(last_call, m)
           /\ OutcomeOf(lost_items, found_items,
                        <<m.lost_item_id, m.found_item_id>>) = None

\* C14: the evaluation of a pair with a missing category, description or
\* location raises nothing: it gives an outcome or no match, namely
\* what the pair with the empty string in place of the missing field gives.
C14_MissingFieldsNeverFail ==
    last_call.op = "_decide" =>
        LET filled(r) == [r EXCEPT !.category = Str(OrEmpty(r.category)),
                                   !.description = Str(OrEmpty(r.description)),
                                   !.location = Str(OrEmpty(r.location))]
        IN  /\ result.kind \in {"None", "RuleOutcome"}
            /\ result = _decide(filled(probe.lost_item), filled(probe.found_item))

\* a pair whose only missing field is the description of the found report has
\* been evaluated, and the evaluation raised
C14_RaisedOnMissingDescription ==
    /\ last_call.op = "_decide"
    /\ probe.lost_item.category # None
    /\ probe.lost_item.description # None
    /\ probe.lost_item.location # None
    /\ probe.found_item.category # None
    /\ probe.found_item.description = None
    /\ probe.found_item.location # None
    /\ result = Raise("AttributeError")

ListOps == {"matches_for_lost", "matches_for_found", "recent_matches", "matches_for_user"}

\* a is not after b: open before completed, then the higher score, then the
\* later update
NotAfter(a, b) ==
    IF a.is_completed # b.is_completed THEN ~a.is_completed
    ELSE IF a.score # b.score THEN a.score > b.score
    ELSE a.updated_at.h >= b.updated_at.h

\* C15: in the list any of the four listings returns, of any two matches the
\* one that comes earlier is not after the other: open matches come before
\* completed ones, then higher scores first, then later updates first.
C15_ListingOrder ==
    last_call.op \in ListOps =>
        \A i \in DOMAIN result.items : \A j \in DOMAIN result.items :
            i < j => NotAfter(result.items[i], result.items[j])

\* a listing has returned two matches that differ only in the third key
C15_Witness ==
    /\ last_call.op \in ListOps
    /\ Len(result.items) = 2
    /\ result.items[1].is_completed = result.items[2].is_completed
    /\ result.items[1].score = result.items[2].score
    /\ result.items[1].updated_at.h > result.items[2].updated_at.h
    /\ \E m \in match_results : m.is_completed /\ m.score > result.items[1].score

\* C16: a pair with equal category, different location, a known gap of at
\* most 5 days and at least one shared keyword is decided MEDIUM, with score
\* 80 or 70; both for given inputs and for a pair of reports.
C16_MediumTier ==
    /\ (/\ last_call.op = "decide_rules"
        /\ probe.category_match
        /\ ~probe.location_match
        /\ probe.time_gap_days # None
        /\ probe.time_gap_days.n <= 5
        /\ probe.keyword_overlap >= 1)
           => /\ result.kind = "RuleOutcome"
              /\ result.level = MEDIUM
              /\ result.score \in {80, 70}
    /\ (/\ last_call.op = "_decide"
        /\ _normalize(probe.lost_item.category) = _normalize(probe.found_item.category)
        /\ _normalize(probe.lost_item.location) # _normalize(probe.found_item.location)
        /\ probe.lost_item.occurred_at # None
        /\ probe.found_item.occurred_at # None
        /\ _time_difference_days(probe.lost_item.occurred_at,
                                 probe.found_item.occurred_at).n <= 5
        /\ _keyword_overlap(probe.lost_item.description,
                            probe.found_item.description) >= 1)
           => /\ result.kind = "RuleOutcome"
              /\ result.level = MEDIUM
              /\ result.score \in {80, 70}

\* a pair of the same category found elsewhere two days apart, sharing one
\* keyword and little else, got 70 MEDIUM
C16_Witness ==
    /\ last_call.op = "_decide"
    /\ probe.lost_item = Report(CatId, DescBlackPhone, LocLib, DateTime(48))
    /\ probe.found_item = Report(CatIdLower, DescXPhoneQ, LocGym, DateTime(97))
    /\ result = RuleOutcome(70, MEDIUM, "reason5")

\* C17: a pair whose categories differ and whose locations differ is decided
\* 55 LOW when the similarity is at least 0.5 and the overlap at least 2, and
\* not matched otherwise; whatever the gap is, the decision is the same.
C17_LowTier ==
    /\ (/\ last_call.op = "decide_rules"
        /\ ~probe.category_match
        /\ ~probe.location_match)
           => /\ result = IF /\ 2 * probe.description_similarity[1]
                                   >= probe.description_similarity[2]
                             /\ probe.keyword_overlap >= 2
                          THEN RuleOutcome(55, LOW, "reason7") ELSE None
              /\ \A gap \in {None} \cup {[kind |-> "int", n |-> n] : n \in 0..MaxGap} :
                     decide_rules(FALSE, FALSE, gap, probe.description_similarity,
                                  probe.keyword_overlap) = result
    /\ (/\ last_call.op = "_decide"
        /\ _normalize(probe.lost_item.category) # _normalize(probe.found_item.category)
        /\ _normalize(probe.lost_item.location) # _normalize(probe.found_item.location))
           => \A similarity \in {ratio(Lower(probe.lost_item.description.s),
                                       Lower(probe.found_item.description.s))} :
                  result = IF /\ 2 * similarity[1] >= similarity[2]
                              /\ _keyword_overlap(probe.lost_item.description,
                                                  probe.found_item.description) >= 2
                           THEN RuleOutcome(55, LOW, "reason7") ELSE None

\* a pair of different categories and places with similar descriptions got
\* 55 LOW
C17_Witness ==
    /\ last_call.op = "_decide"
    /\ probe.lost_item = Report(CatId, DescBlackPhone, LocLib, DateTime(48))
    /\ probe.found_item = Report(CatKey, DescRedPhoneCase, LocGym, DateTime(240))
    /\ result = RuleOutcome(55, LOW, "reason7")

\* C18: the gap of two timestamps is the same in both orders and is the
\* number of whole days in the absolute difference, so two timestamps less
\* than 24 hours apart have gap 0 whichever is earlier.
C18_GapSymmetricWholeDays ==
    (/\ last_call.op = "_decide"
     /\ probe.lost_item.occurred_at # None
     /\ probe.found_item.occurred_at # None)
        => \A a \in {probe.lost_item.occurred_at} :
           \A b \in {probe.found_item.occurred_at} :
               /\ _time_difference_days(a, b) = _time_difference_days(b, a)
               /\ _time_difference_days(a, b).n = Abs(a.h - b.h) \div 24

\* a report lost one hour before the other was found has gap 1, and gap 0
\* with the two timestamps exchanged
C18_EarlierFirstCountsADay ==
    /\ last_call.op = "_decide"
    /\ probe.lost_item.occurred_at = DateTime(48)
    /\ probe.found_item.occurred_at = DateTime(49)
    /\ _time_difference_days(probe.lost_item.occurred_at,
                             probe.found_item.occurred_at).n = 1
    /\ _time_difference_days(probe.found_item.occurred_at,
                             probe.lost_item.occurred_at).n = 0

\* C19: every stored match has one of the eight rule scores, and its level
\* is HIGH exactly for 98 and 90, MEDIUM exactly for 80, 75, 70 and 65, and
\* LOW exactly for 55 and 45.
C19_ScoreLevelConsistent ==
    \A m \in match_results :
        /\ m.score \in {98, 90, 80, 75, 70, 65, 55, 45}
        /\ m.level = HIGH <=> m.score \in {98, 90}
        /\ m.level = MEDIUM <=> m.score \in {80, 75, 70, 65}
        /\ m.level = LOW <=> m.score \in {55, 45}

\* an edit has rescored a stored match from one level to another while a
\* match of the other level is stored beside it
C19_Witness ==
    /\ last_call.op \in {"edit_lost_item", "edit_found_item"}
    /\ \E m \in match_results : m.level = HIGH /\ m.score = 98
    /\ \E m \in match_results :
           /\ m.level = MEDIUM
           /\ ~m.is_completed
           /\ m.created_at # m.updated_at

\* C20: a stored match has completed_at set exactly when it is completed,
\* and every operation leaves a completed match completed with the same
\* completed_at, unless it is the deletion of one of its two reports or a
\* clear_matches_for_* call on one of them, which removes the match.
C20_CompletionPermanent ==
    /\ [](\A m \in match_results : m.completed_at # None <=> m.is_completed)
    /\ [][\A m \in match_results : m.is_completed =>
             \/ \E n \in match_results' :
                    /\ n.id = m.id
                    /\ n.lost_item_id = m.lost_item_id
                    /\ n.found_item_id = m.found_item_id
                    /\ n.is_completed
                    /\ n.completed_at = m.completed_at
             \/ /\ \/ /\ last_call'.op \in {"delete_lost_item", "clear_matches_for_lost"}
                      /\ last_call'.id = m.lost_item_id
                   \/ /\ last_call'.op \in {"delete_found_item", "clear_matches_for_found"}
                      /\ last_call'.id = m.found_item_id
                /\ \A n \in match_results' : n.id # m.id]_vars

\* a match created at time 0 and completed at time 1 is still completed,
\* with completed_at 1, after a later edit of one of its reports has
\* evaluated its pair again
C20_Witness ==
    /\ last_call.op \in {"edit_lost_item", "edit_found_item"}
    /\ \E m \in match_results :
           /\ m.is_completed
           /\ m.created_at = DateTime(0)
           /\ m.completed_at = DateTime(1)
           /\ last_call.id = IF last_call.op = "edit_lost_item"
                             THEN m.lost_item_id ELSE m.found_item_id

\* C22: making the evidence stronger never lowers the decision. For given
\* inputs and every way of strengthening them (a match flag from false to
\* true, a gap from unknown to known or to a smaller one, a higher overlap,
\* a higher similarity, in any combination), the strengthened inputs get an
\* outcome whenever the given ones do, and no lower score.
C22_MonotoneInEvidence ==
    last_call.op = "decide_rules" =>
        \A category_match \in {b \in BOOLEAN : probe.category_match => b} :
        \A location_match \in {b \in BOOLEAN : probe.location_match => b} :
        \A time_gap_days \in
               IF probe.time_gap_days = None
               THEN {None} \cup {[kind |-> "int", n |-> n] : n \in 0..MaxGap}
               ELSE {[kind |-> "int", n |-> n] : n \in 0..probe.time_gap_days.n} :
        \A description_similarity \in
               {<<n, SimSteps>> : n \in probe.description_similarity[1]..SimSteps} :
        \A keyword_overlap \in probe.keyword_overlap..MaxOverlap :
        \A stronger \in {decide_rules(category_match, location_match, time_gap_days,
                                      description_similarity, keyword_overlap)} :
            result # None => (stronger # None /\ stronger.score >= result.score)

\* inputs decided 70 MEDIUM by rule 5 that are decided 75 once the locations
\* match too, and 98 once the gap is also down to two days
C22_Witness ==
    /\ last_call.op = "decide_rules"
    /\ probe.category_match
    /\ ~probe.location_match
    /\ probe.time_gap_days = [kind |-> "int", n |-> 5]
    /\ probe.description_similarity = <<0, SimSteps>>
    /\ probe.keyword_overlap = 1
    /\ result = RuleOutcome(70, MEDIUM, "reason5")
    /\ decide_rules(TRUE, TRUE, probe.time_gap_days, probe.description_similarity,
                    probe.keyword_overlap).score = 75
    /\ decide_rules(TRUE, TRUE, [kind |-> "int", n |-> 2], probe.description_similarity,
                    probe.keyword_overlap).score = 98

\* C21 as stated: when another request completes a match after a handle
\* invocation has loaded it and before that invocation commits, the match is
\* completed after the commit and has the score, level and reason it was
\* completed with.
C21_FreezeUnderInterleaving ==
    [][last_call'.op = "bulk_persist" =>
           \A d \in last_call'.raced :
               \E n \in match_results' :
                   /\ n.id = d.id
                   /\ n.is_completed
                   /\ n.score = d.score
                   /\ n.level = d.level
                   /\ n.reason = d.reason]_vars

\* C21: when another request completes a match after a handle invocation has
\* loaded it and before that invocation commits, the match is completed after
\* the commit, with the completed_at of the other request, and has the score,
\* level and reason of the invocation's evaluation of the pair, whether or
\* not it was completed with them.
C21_CompletedButRescored ==
    [][last_call'.op = "bulk_persist" =>
           \A d \in last_call'.raced :
               \E n \in match_results' : \E m \in session :
                   /\ n.id = d.id
                   /\ m.id = d.id
                   /\ n.is_completed
                   /\ n.completed_at = d.completed_at
                   /\ n.lost_item_id = d.lost_item_id
                   /\ n.found_item_id = d.found_item_id
                   /\ n.score = m.score
                   /\ n.level = m.level
                   /\ n.reason = m.reason]_vars

\* an invocation has committed a score for a match that another request
\* completed, with another score, while the invocation held it
C21_Witness ==
    /\ last_call.op = "bulk_persist"
    /\ \E d \in last_call.raced : \E n \in match_results :
           /\ n.id = d.id
           /\ n.is_completed
           /\ n.completed_at = d.completed_at
           /\ n.score # d.score

====
